---- MODULE Spec2Model ----
(***************************************************************************)
(* Model of the metrics ETL: the two snapshot relations filled by          *)
(* github_repo_etl.py and pypi_etl.py, the consolidation query and the     *)
(* publish step of load_public.py, and the exit status of the two          *)
(* command-line entry points (load_public.py and main.py).                 *)
(*                                                                         *)
(* Relations are bags (SQL tables hold duplicates).  A nullable column     *)
(* holds <<>> for NULL and <<v>> for the value v.                          *)
(***************************************************************************)
EXTENDS Integers, Sequences, FiniteSets, Bags, TLC

\* ---------------------------------------------------------------- bounds
MaxRows == 3          \* rows the two snapshot relations hold at most, together
MaxTime == 2          \* collected_at ranges over 1..MaxTime
MaxVal  == 2          \* counters (stars, downloads) range over 1..MaxVal
MaxRuns == 2          \* command-line invocations in one behaviour

Names == {"a", "b"}

\* ------------------------------------------------------------ data model
Null == <<>>
Some(v) == <<v>>

\* pypi_etl.py maps the registry package of a library to its name.
PypiPackage(n) == "pkg_" \o n

\* A row of github_repo_metrics.  stars stands for the thirteen payload
\* columns the query copies unchanged from the same row.
GithubRows ==
    [name : Names, collected_at : 1..MaxTime, stars : 1..MaxVal]

\* A row of pypi_download_stats.  The counters count downloads over nested
\* windows, so downloads_last_year <= total_downloads_alltime;
\* total_downloads_alltime also stands for downloads_last_month, which the
\* query copies from the same row in the same way.
PypiRows ==
    { r \in [name : Names, pypi_name : {PypiPackage(n) : n \in Names},
             total_downloads_alltime : 1..MaxVal,
             downloads_last_year : 1..MaxVal] :
        /\ r.pypi_name = PypiPackage(r.name)
        /\ r.downloads_last_year <= r.total_downloads_alltime }

VARIABLES
    github_repo_metrics,   \* bag of GithubRows
    pypi_download_stats,   \* bag of PypiRows
    tech_metrics,          \* committed contents of public.tech_metrics
    pending,               \* rows inserted by the session, not yet committed
    autocommit,            \* AUTOCOMMIT parameter of the publishing session
    conn,                  \* "none", "open", "closed"
    pc,                    \* position in load_to_snowflake
    err,                   \* exception in flight / raised to the caller
    steps,                 \* calls made by this run of load_to_snowflake
    entry,                 \* script started from the command line
    phase,                 \* position of the command-line run
    results,               \* main.py: results dictionary
    exit_status,           \* <<>> while running, <<code>> once exited
    runs,                  \* command-line invocations started so far
    before,                \* tech_metrics when load_to_snowflake was entered
    last                   \* contents left by each of the latest successful
                           \* publishes in succession over unchanged snapshots

vars == << github_repo_metrics, pypi_download_stats, tech_metrics, pending,
           autocommit, conn, pc, err, steps, entry, phase, results,
           exit_status, runs, before, last >>

snapshotVars == << github_repo_metrics, pypi_download_stats >>
tableVars == << tech_metrics, pending >>
fnVars == << autocommit, conn, pc, err, steps, before >>
runVars == << entry, phase, results, exit_status, runs >>

\* ----------------------------------------------------------- bag helpers
RECURSIVE SumOver(_, _)
SumOver(S, f) ==
    IF S = {} THEN 0
    ELSE LET x == CHOOSE y \in S : TRUE
         IN  f[x] + SumOver(S \ {x}, f)

\* Rows of bag B that satisfy the predicate given as the set P of rows.
Restrict(B, P) == [r \in BagToSet(B) \cap P |-> B[r]]

NamesOf(B) == { r.name : r \in BagToSet(B) }

RowsOf(B, n) == { r \in BagToSet(B) : r.name = n }

\* Number of rows of bag B with name n, duplicates counted.
CountOf(B, n) == SumOver(RowsOf(B, n), B)

RECURSIVE MaxOf(_)
MaxOf(S) ==
    LET x == CHOOSE y \in S : TRUE
    IN  IF S = {x} THEN x
        ELSE LET m == MaxOf(S \ {x}) IN IF x > m THEN x ELSE m

\* --------------------------------------------------- the consolidation SQL
RECURSIVE MinOf(_)
MinOf(S) ==
    LET x == CHOOSE y \in S : TRUE
    IN  IF S = {x} THEN x
        ELSE LET m == MinOf(S \ {x}) IN IF x < m THEN x ELSE m

\* Faulty variant of MaxCollectedAt: MIN(collected_at) in place of MAX(collected_at).
MinCollectedAt(G, n) == MinOf({ r.collected_at : r \in RowsOf(G, n) })

\* SELECT name, MAX(collected_at) FROM github_repo_metrics GROUP BY name
MaxCollectedAt(G, n) == MaxOf({ r.collected_at : r \in RowsOf(G, n) })

\* latest_github: every row whose collected_at equals its name's maximum.
latest_github(G) ==
    Restrict(G, { r \in BagToSet(G) : r.collected_at = MaxCollectedAt(G, r.name) })

\* SELECT name, MAX(downloads_last_year) FROM pypi_download_stats GROUP BY name
MaxDownloadsLastYear(P, n) == MaxOf({ r.downloads_last_year : r \in RowsOf(P, n) })

\* latest_pypi: every row whose downloads_last_year equals its name's maximum.
latest_pypi(P) ==
    Restrict(P, { r \in BagToSet(P) :
                    r.downloads_last_year = MaxDownloadsLastYear(P, r.name) })

\* The select list for a joined pair (g, p).
Joined(g, p) ==
    [ name |-> g.name,
      stars |-> g.stars,
      pypi_name |-> Some(p.pypi_name),
      total_downloads_alltime |-> Some(p.total_downloads_alltime),
      downloads_last_year |-> Some(p.downloads_last_year) ]

\* The select list for a left row g without a match: p.* is NULL.
Unmatched(g) ==
    [ name |-> g.name,
      stars |-> g.stars,
      pypi_name |-> Null,
      total_downloads_alltime |-> Null,
      downloads_last_year |-> Null ]

\* ON g.name = p.name
JoinOn(g, p) == g.name = p.name

\* FROM latest_github g LEFT JOIN latest_pypi p ON g.name = p.name: the
\* pairs (g, p) that match, and the left rows that match nothing, each with
\* the number of times the join emits it.
LeftJoin(LG, LP) ==
    LET gs == BagToSet(LG)
        ps == BagToSet(LP)
        pairs == { x \in gs \X ps : JoinOn(x[1], x[2]) }
        alone == { g \in gs : \A p \in ps : ~JoinOn(g, p) }
        out == { Joined(x[1], x[2]) : x \in pairs } \cup { Unmatched(g) : g \in alone }
        times(r) ==
            SumOver({ x \in pairs : Joined(x[1], x[2]) = r },
                    [x \in pairs |-> LG[x[1]] * LP[x[2]]])
            + SumOver({ g \in alone : Unmatched(g) = r }, LG)
    IN  [r \in out |-> times(r)]

\* Faulty variant of Consolidated: FULL OUTER JOIN in place of LEFT JOIN, so that a
\* registry row without a GitHub row is emitted under the registry's name.
ConsolidatedFullJoin(G, P) ==
    LET LG == latest_github(G)
        LP == latest_pypi(P)
        extra == { p \in BagToSet(LP) : \A g \in BagToSet(LG) : ~JoinOn(g, p) }
    IN  LeftJoin(LG, LP) (+)
        [ r \in { Joined([name |-> p.name, stars |-> 0], p) : p \in extra } |-> 1 ]

\* The rows the INSERT ... SELECT statement produces.
Consolidated(G, P) == LeftJoin(latest_github(G), latest_pypi(P))

\* ------------------------------------------------------------ statements
\* Faulty variant of Truncated: the table is not cleared before the insert.
NotTruncated(T) == T

\* TRUNCATE TABLE public.tech_metrics
Truncated(T) == EmptyBag

\* INSERT INTO public.tech_metrics (...) <query>: the rows added.
Inserted(G, P) == Consolidated(G, P)

NoError == "none"

\* Rows held by the two snapshot relations together.
SnapshotRows == BagCardinality(github_repo_metrics) + BagCardinality(pypi_download_stats)

\* One call made by load_to_snowflake: result is "ok" or the exception raised.
Step(op, result) == [op |-> op, result |-> result]

Raised(op) == op \o " failed"

Outcome(op, ok) == IF ok THEN "ok" ELSE Raised(op)

\* ---------------------------------------------------------------- Init
Init ==
    /\ github_repo_metrics = EmptyBag
    /\ pypi_download_stats = EmptyBag
    /\ tech_metrics = EmptyBag
    /\ pending = EmptyBag
    /\ autocommit = TRUE
    /\ conn = "none"
    /\ pc = "idle"
    /\ err = NoError
    /\ steps = <<>>
    /\ entry = "none"
    /\ phase = "shell"
    /\ results = [github_success |-> FALSE, pypi_success |-> FALSE,
                  combine_success |-> FALSE]
    /\ exit_status = <<>>
    /\ runs = 0
    /\ before = EmptyBag
    /\ last = <<>>

\* ------------------------------------------------- command-line entry
\* `python main.py` or `python load_public.py`: a new process.  A session
\* left open by the previous process has ended and its open transaction
\* was rolled back by the server.
StartRun(e) ==
    /\ phase = "shell"
    /\ runs < MaxRuns
    /\ runs' = runs + 1
    /\ entry' = e
    /\ phase' = IF e = "main.py" THEN "github" ELSE "load"
    /\ results' = [github_success |-> FALSE, pypi_success |-> FALSE,
                   combine_success |-> FALSE]
    /\ exit_status' = <<>>
    /\ pc' = "idle"
    /\ err' = NoError
    /\ steps' = <<>>
    /\ conn' = "none"
    /\ pending' = EmptyBag
    /\ autocommit' = TRUE
    /\ before' = EmptyBag
    /\ UNCHANGED << snapshotVars, tech_metrics, last >>

\* ------------------------------------------------------------ ingestion
\* github_repo_etl.insert_metrics: one cursor.execute of the INSERT.
GithubInsertRow(r) ==
    /\ phase = "github"
    /\ SnapshotRows < MaxRows
    /\ github_repo_metrics' = github_repo_metrics (+) SetToBag({r})
    /\ last' = <<>>
    /\ UNCHANGED << pypi_download_stats, tableVars, fnVars, runVars >>

\* main.run_github_etl returns True, or False when github_repo_etl.main raised.
RunGithubEtl(ok) ==
    /\ phase = "github"
    /\ results' = [results EXCEPT !.github_success = ok]
    /\ phase' = "pypi"
    /\ UNCHANGED << snapshotVars, tableVars, fnVars, entry, exit_status, runs, last >>

\* pypi_etl.load_to_snowflake: one cursor.execute of the INSERT.
PypiInsertRow(r) ==
    /\ phase = "pypi"
    /\ SnapshotRows < MaxRows
    /\ pypi_download_stats' = pypi_download_stats (+) SetToBag({r})
    /\ last' = <<>>
    /\ UNCHANGED << github_repo_metrics, tableVars, fnVars, runVars >>

\* main.run_pypi_etl returns True, or False when pypi_etl.main raised.
RunPypiEtl(ok) ==
    /\ phase = "pypi"
    /\ results' = [results EXCEPT !.pypi_success = ok]
    /\ phase' = "load"
    /\ UNCHANGED << snapshotVars, tableVars, fnVars, entry, exit_status, runs, last >>

\* -------------------------------------------------- load_public.py
\* load_config: config.json missing or a SNOWFLAKE_* variable unset; exit(1)
\* raises SystemExit, which no `except Exception` of main.py catches.
LoadConfigExit ==
    /\ phase = "load"
    /\ pc = "idle"
    /\ exit_status' = <<1>>
    /\ phase' = "shell"
    /\ UNCHANGED << snapshotVars, tableVars, fnVars, entry, results, runs, last >>

\* conn = snowflake.connector.connect(**snowflake_config): no autocommit
\* argument is passed and no BEGIN is ever executed, so the session runs
\* with the AUTOCOMMIT parameter the account or user sets (TRUE by default).
Connect(ok, ac) ==
    /\ phase = "load"
    /\ pc = "idle"
    /\ steps' = Append(steps, Step("connect", Outcome("connect", ok)))
    /\ before' = tech_metrics
    /\ IF ok
       THEN /\ conn' = "open"
            /\ autocommit' = ac
            /\ pc' = "cursor"
            /\ err' = NoError
       ELSE /\ conn' = "none"
            /\ autocommit' = autocommit
            /\ pc' = "raised"
            /\ err' = Raised("connect")
    /\ last' = IF ok THEN last ELSE <<>>
    /\ UNCHANGED << snapshotVars, tableVars, runVars >>

\* cursor = conn.cursor(): outside the try block, so a failure neither
\* rolls back nor closes the connection.
Cursor(ok) ==
    /\ pc = "cursor"
    /\ steps' = Append(steps, Step("cursor", Outcome("cursor", ok)))
    /\ pc' = IF ok THEN "truncate" ELSE "raised"
    /\ err' = IF ok THEN err ELSE Raised("cursor")
    /\ last' = IF ok THEN last ELSE <<>>
    /\ UNCHANGED << snapshotVars, tableVars, autocommit, conn, before, runVars >>

\* cursor.execute("TRUNCATE TABLE public.tech_metrics").  Snowflake commits
\* the open transaction, if any, and runs TRUNCATE in its own transaction,
\* committed at once, whatever AUTOCOMMIT is.
Truncate(ok) ==
    /\ pc = "truncate"
    /\ steps' = Append(steps, Step("truncate", Outcome("truncate", ok)))
    /\ IF ok
       THEN /\ tech_metrics' = Truncated(tech_metrics (+) pending)
            /\ pending' = EmptyBag
            /\ pc' = "insert"
            /\ err' = err
       ELSE /\ UNCHANGED tableVars
            /\ pc' = "rollback"
            /\ err' = Raised("truncate")
    /\ UNCHANGED << snapshotVars, autocommit, conn, before, runVars, last >>

\* What makes cursor.execute(sql) of the INSERT raise: reading one of the
\* snapshot relations, or writing public.tech_metrics.
InsertFailures == {"read github_repo_metrics", "read pypi_download_stats",
                   "write tech_metrics"}

\* cursor.execute(sql): one statement that reads both snapshot relations
\* and inserts the result.  With AUTOCOMMIT on the rows are committed when
\* the statement ends; otherwise they wait for conn.commit().
Insert(outcome) ==
    /\ pc = "insert"
    /\ steps' = Append(steps, Step("insert", outcome))
    /\ IF outcome = "ok"
       THEN LET rows == Inserted(github_repo_metrics, pypi_download_stats)
            IN  /\ tech_metrics' = IF autocommit THEN tech_metrics (+) rows
                                   ELSE tech_metrics
                /\ pending' = IF autocommit THEN pending ELSE pending (+) rows
                /\ pc' = "commit"
                /\ err' = err
       ELSE /\ UNCHANGED tableVars
            /\ pc' = "rollback"
            /\ err' = outcome
    /\ UNCHANGED << snapshotVars, autocommit, conn, before, runVars, last >>

\* conn.commit(): makes the session's uncommitted rows visible.
Commit(ok) ==
    /\ pc = "commit"
    /\ steps' = Append(steps, Step("commit", Outcome("commit", ok)))
    /\ IF ok
       THEN /\ tech_metrics' = tech_metrics (+) pending
            /\ pending' = EmptyBag
            /\ pc' = "cursor_close"
            /\ err' = err
       ELSE /\ UNCHANGED tableVars
            /\ pc' = "rollback"
            /\ err' = Raised("commit")
    /\ UNCHANGED << snapshotVars, autocommit, conn, before, runVars, last >>

\* except Exception: conn.rollback(); raise.  The rollback discards the
\* session's uncommitted rows; when it raises, its exception replaces the one
\* being handled.  Either way the finally block runs next.
Rollback(ok) ==
    /\ pc = "rollback"
    /\ steps' = Append(steps, Step("rollback", Outcome("rollback", ok)))
    /\ pending' = IF ok THEN EmptyBag ELSE pending
    /\ err' = IF ok THEN err ELSE Raised("rollback")
    /\ pc' = "cursor_close"
    /\ UNCHANGED << snapshotVars, tech_metrics, autocommit, conn, before, runVars, last >>

\* finally: cursor.close(); when it raises, conn.close() is not reached.
CursorClose(ok) ==
    /\ pc = "cursor_close"
    /\ steps' = Append(steps, Step("cursor.close", Outcome("cursor.close", ok)))
    /\ pc' = IF ok THEN "conn_close" ELSE "raised"
    /\ err' = IF ok THEN err ELSE Raised("cursor.close")
    /\ last' = IF ok THEN last ELSE <<>>
    /\ UNCHANGED << snapshotVars, tableVars, autocommit, conn, before, runVars >>

\* finally: conn.close(), then the function returns or the exception in
\* flight propagates.  Closing the session rolls back what it left open.
ConnClose(ok) ==
    /\ pc = "conn_close"
    /\ steps' = Append(steps, Step("conn.close", Outcome("conn.close", ok)))
    /\ IF ok
       THEN /\ conn' = "closed"
            /\ pending' = EmptyBag
            /\ err' = err
            /\ pc' = IF err = NoError THEN "returned" ELSE "raised"
       ELSE /\ conn' = conn
            /\ pending' = pending
            /\ err' = Raised("conn.close")
            /\ pc' = "raised"
    /\ last' = IF pc' = "returned" THEN Append(last, tech_metrics) ELSE <<>>
    /\ UNCHANGED << snapshotVars, tech_metrics, autocommit, before, runVars >>

\* load_public.py run as a script: main() returns and the interpreter exits
\* with 0, or the exception is uncaught and it exits with 1.
LoadPublicExit ==
    /\ phase = "load"
    /\ entry = "load_public.py"
    /\ pc \in {"returned", "raised"}
    /\ exit_status' = <<IF pc = "returned" THEN 0 ELSE 1>>
    /\ phase' = "shell"
    /\ UNCHANGED << snapshotVars, tableVars, fnVars, entry, results, runs, last >>

\* ------------------------------------------------------------- main.py
\* run_load_public: True when load_public.main() returned, False when it
\* raised an Exception (logged with its traceback).
RunLoadPublic ==
    /\ phase = "load"
    /\ entry = "main.py"
    /\ pc \in {"returned", "raised"}
    /\ results' = [results EXCEPT !.combine_success = (pc = "returned")]
    /\ phase' = "summary"
    /\ UNCHANGED << snapshotVars, tableVars, fnVars, entry, exit_status, runs, last >>

\* overall_success = all(results.values())
OverallSuccess(res) ==
    res.github_success /\ res.pypi_success /\ res.combine_success

\* sys.exit(0 if overall_success else 1)
MainExit ==
    /\ phase = "summary"
    /\ exit_status' = <<IF OverallSuccess(results) THEN 0 ELSE 1>>
    /\ phase' = "shell"
    /\ UNCHANGED << snapshotVars, tableVars, fnVars, entry, results, runs, last >>

\* ------------------------------------------------------------------ Next
Next ==
    \/ \E e \in {"main.py", "load_public.py"} : StartRun(e)
    \/ \E r \in GithubRows : GithubInsertRow(r)
    \/ \E ok \in BOOLEAN : RunGithubEtl(ok)
    \/ \E r \in PypiRows : PypiInsertRow(r)
    \/ \E ok \in BOOLEAN : RunPypiEtl(ok)
    \/ LoadConfigExit
    \/ \E ok \in BOOLEAN, ac \in BOOLEAN : Connect(ok, ac)
    \/ \E ok \in BOOLEAN : Cursor(ok)
    \/ \E ok \in BOOLEAN : Truncate(ok)
    \/ \E outcome \in {"ok"} \cup InsertFailures : Insert(outcome)
    \/ \E ok \in BOOLEAN : Commit(ok)
    \/ \E ok \in BOOLEAN : Rollback(ok)
    \/ \E ok \in BOOLEAN : CursorClose(ok)
    \/ \E ok \in BOOLEAN : ConnClose(ok)
    \/ LoadPublicExit
    \/ RunLoadPublic
    \/ MainExit

Spec == Init /\ [][Next]_vars

\* ------------------------------------------- the publish over any snapshot
\* Every bag of at most k rows drawn from S.
RECURSIVE BagsUpTo(_, _)
BagsUpTo(S, k) ==
    IF k = 0 THEN {EmptyBag}
    ELSE LET B == BagsUpTo(S, k - 1)
         IN  B \cup { b (+) SetToBag({r}) : b \in B, r \in S }

\* The snapshot relations hold any rows the ingestion may have appended, the
\* published table is still empty and no process runs.
QueryInit ==
    /\ \E b \in BagsUpTo(GithubRows \cup PypiRows, MaxRows) :
        /\ github_repo_metrics = Restrict(b, GithubRows)
        /\ pypi_download_stats = Restrict(b, PypiRows)
    /\ tech_metrics = EmptyBag
    /\ pending = EmptyBag
    /\ autocommit = TRUE
    /\ conn = "none"
    /\ pc = "idle"
    /\ err = NoError
    /\ steps = <<>>
    /\ entry = "none"
    /\ phase = "shell"
    /\ results = [github_success |-> FALSE, pypi_success |-> FALSE,
                  combine_success |-> FALSE]
    /\ exit_status = <<>>
    /\ runs = 0
    /\ before = EmptyBag
    /\ last = <<>>

\* `python load_public.py`, run again and again over unchanged snapshot
\* relations, every call of load_to_snowflake returning.
QueryNext ==
    \/ StartRun("load_public.py")
    \/ \E ac \in BOOLEAN : Connect(TRUE, ac)
    \/ Cursor(TRUE)
    \/ Truncate(TRUE)
    \/ Insert("ok")
    \/ Commit(TRUE)
    \/ CursorClose(TRUE)
    \/ ConnClose(TRUE)
    \/ LoadPublicExit

QuerySpec == QueryInit /\ [][QueryNext]_vars

\* =============================================================== claims
Ran(op, result) == \E i \in 1..Len(steps) : steps[i] = Step(op, result)

Attempts(op) == Cardinality({ i \in 1..Len(steps) : steps[i].op = op })

\* The exception of the first call of this run that raised.
FirstFailure ==
    LET bad == { i \in 1..Len(steps) : steps[i].result # "ok" }
    IN  steps[CHOOSE i \in bad : \A j \in bad : i <= j].result

Failed == \E i \in 1..Len(steps) : steps[i].result # "ok"

RegistryNull(r) ==
    /\ r.pypi_name = Null
    /\ r.total_downloads_alltime = Null
    /\ r.downloads_last_year = Null

\* C1: when the INSERT has raised after the TRUNCATE was executed, and
\* load_to_snowflake has handed that error to its caller (the rollback and both
\* closes went through), public.tech_metrics holds exactly the rows it held
\* when the run started.  Stated for the session the connector opens by
\* default (AUTOCOMMIT on).
C1_FailureAfterClearRestoresTable ==
    (pc = "raised" /\ autocommit /\ Ran("truncate", "ok") /\ err \in InsertFailures)
        => tech_metrics = before

\* C2: from the connect on, a reader on another session sees public.tech_metrics
\* either as it was before the run or holding the complete consolidated rows,
\* never empty or partly filled.  Stated for the session the connector opens
\* by default (AUTOCOMMIT on).
C2_ReaderSeesOldOrNew ==
    (pc # "idle" /\ autocommit) =>
        \/ tech_metrics = before
        \/ tech_metrics = Consolidated(github_repo_metrics, pypi_download_stats)

\* C3: after a successful publish public.tech_metrics holds exactly one row
\* for every name that has a row in github_repo_metrics.
C3_OneRowPerGithubName ==
    pc = "returned" =>
        \A n \in NamesOf(github_repo_metrics) : CountOf(tech_metrics, n) = 1

\* C4: latest_github and latest_pypi hold at most one row per name, for every
\* content of the snapshot relations.
C4_LatestAtMostOnePerName ==
    \A n \in Names :
        /\ CountOf(latest_github(github_repo_metrics), n) <= 1
        /\ CountOf(latest_pypi(pypi_download_stats), n) <= 1

\* C5: after a successful publish, a name with rows in both snapshot relations
\* is published, and every published row of it carries the GitHub fields of a
\* github_repo_metrics row of that name with the greatest collected_at and the
\* registry fields of a pypi_download_stats row of that name with the greatest
\* downloads_last_year.
C5_FieldsFromLatestRows ==
    pc = "returned" =>
        \A n \in NamesOf(github_repo_metrics) \cap NamesOf(pypi_download_stats) :
            /\ RowsOf(tech_metrics, n) # {}
            /\ \A r \in RowsOf(tech_metrics, n) :
                /\ \E g \in RowsOf(github_repo_metrics, n) :
                    /\ \A g2 \in RowsOf(github_repo_metrics, n) :
                            g2.collected_at <= g.collected_at
                    /\ r.stars = g.stars
                /\ \E p \in RowsOf(pypi_download_stats, n) :
                    /\ \A p2 \in RowsOf(pypi_download_stats, n) :
                            p2.downloads_last_year <= p.downloads_last_year
                    /\ r.pypi_name = Some(p.pypi_name)
                    /\ r.total_downloads_alltime = Some(p.total_downloads_alltime)
                    /\ r.downloads_last_year = Some(p.downloads_last_year)

\* A publish has succeeded over a name that has an older and a newer GitHub
\* snapshot with different payloads, and a registry row.
C5_Witness ==
    /\ pc = "returned"
    /\ \E n \in NamesOf(pypi_download_stats) :
        \E g1, g2 \in RowsOf(github_repo_metrics, n) :
            g1.collected_at < g2.collected_at /\ g1.stars # g2.stars

\* C6: after a successful publish every published name occurs in
\* github_repo_metrics.
C6_PublishedNamesAreGithubNames ==
    pc = "returned" => NamesOf(tech_metrics) \subseteq NamesOf(github_repo_metrics)

\* A publish has succeeded, has published rows, and a name occurs only in
\* pypi_download_stats.
C6_Witness ==
    /\ pc = "returned"
    /\ tech_metrics # EmptyBag
    /\ NamesOf(pypi_download_stats) \ NamesOf(github_repo_metrics) # {}

\* C7: after a successful publish a name with GitHub rows and no registry row
\* is published exactly once, with every registry field NULL.
C7_GithubOnlyOnceWithNulls ==
    pc = "returned" =>
        \A n \in NamesOf(github_repo_metrics) \ NamesOf(pypi_download_stats) :
            /\ CountOf(tech_metrics, n) = 1
            /\ \A r \in RowsOf(tech_metrics, n) : RegistryNull(r)

\* C8: of two successful publishes in succession over unchanged snapshot
\* relations, the second leaves public.tech_metrics as the first left it.
C8_RepublishIsIdempotent ==
    \A i \in 1..Len(last) : \A j \in 1..Len(last) : last[i] = last[j]

\* Two publishes have succeeded in succession over snapshot relations that
\* hold a tie on collected_at, and rows are published.
C8_Witness ==
    /\ Len(last) >= 2
    /\ tech_metrics # EmptyBag
    /\ \E n \in Names : CountOf(latest_github(github_repo_metrics), n) >= 2

\* C9: when the read of a snapshot relation has failed and its error has
\* reached the caller, no TRUNCATE was executed on public.tech_metrics before
\* the read and the table holds what it held before the run.
ReadFailures == {"read github_repo_metrics", "read pypi_download_stats"}

C9_ReadFailureLeavesTableUntouched ==
    (pc = "raised" /\ err \in ReadFailures) =>
        /\ ~Ran("truncate", "ok")
        /\ tech_metrics = before

\* C10: when a call made after the connection was opened has raised, rollback
\* was attempted exactly once, no call was made twice, the caller receives the
\* exception of the first call that raised, and the process exits non-zero;
\* the process exits 0 only when the publish returned after its commit.
C10_FailureRollsBackOnceAndPropagates ==
    /\ (pc = "raised" /\ Ran("connect", "ok")) =>
            /\ Attempts("rollback") = 1
            /\ \A i \in 1..Len(steps) : Attempts(steps[i].op) = 1
            /\ err = FirstFailure
    /\ (pc = "raised" /\ exit_status # <<>>) => exit_status # <<0>>
    /\ exit_status = <<0>> => (pc = "returned" /\ Ran("commit", "ok"))

\* C11: a run of load_to_snowflake connects exactly once, and when it has
\* returned control after acquiring the connection -- the commit went through,
\* or conn.cursor(), the TRUNCATE, the INSERT, the commit or the rollback
\* raised -- the connection is closed.  Stated for the runs in which neither
\* close call itself raised.
C11_ConnectionClosedOnEveryExit ==
    ( /\ pc \in {"returned", "raised"}
      /\ Ran("connect", "ok")
      /\ ~Ran("cursor.close", Raised("cursor.close"))
      /\ ~Ran("conn.close", Raised("conn.close")) )
        => (Attempts("connect") = 1 /\ conn = "closed")

====
